---- MODULE Spec2Model ----
(***************************************************************************)
(* Simkl -> Trakt migration (migrate_simkl_to_trakt.py) and Simkl -> CSV   *)
(* export (export_simkl_to_csv.py), as state machines.                     *)
(*                                                                         *)
(* JSON values are modelled as follows:                                    *)
(*   - a scalar is a record [t, s, n]: a string (t = "str", s its          *)
(*     characters), an integer (t = "int", n its value) or null            *)
(*     (t = "none");                                                       *)
(*   - an object (Python dict) is a function whose DOMAIN is its key set;  *)
(*   - an array (Python list) is a sequence.                               *)
(***************************************************************************)
EXTENDS Integers, Sequences, FiniteSets, TLC

VARIABLES
    pc,           \* position of main() of the migration script
    cat,          \* index (1..3) of the category main() is working on
    data,         \* simkl_movies / simkl_shows / simkl_anime: the fetched response
    items,        \* trakt_movies / trakt_shows / trakt_anime: the transformed records
    i,            \* loop variable of upload_to_trakt
    sent,         \* payloads POSTed by the current / last upload_to_trakt call
    failed,       \* <<category, batch number>> of every POST that raised
    fetched,      \* categories fetch_simkl_data was called for, in call order
    transformed,  \* categories transform_to_trakt was called for, in call order
    uploaded,     \* categories upload_to_trakt was called for, in call order
    fetchFailed,  \* categories whose fetch raised
    nsub,         \* per category: number of POSTs to /sync/history
    nsleep,       \* number of time.sleep(1) calls
    epc,          \* position of main() of the export script
    ecat,         \* index (1..3) of the category the export is working on
    edata,        \* the response the export fetched last
    inputs,       \* per category: the response the export got ("failed" if none)
    all_rows,     \* all_rows of the export's main()
    csvfile       \* the lines written to simkl_history_export.csv

migVars == <<pc, cat, data, items, i, sent, failed, fetched, transformed,
             uploaded, fetchFailed, nsub, nsleep>>
expVars == <<epc, ecat, edata, inputs, all_rows, csvfile>>
vars == <<pc, cat, data, items, i, sent, failed, fetched, transformed,
          uploaded, fetchFailed, nsub, nsleep,
          epc, ecat, edata, inputs, all_rows, csvfile>>

----------------------------------------------------------------------------
(* Bounds *)

MaxLen == 2        \* entries per list handed to transform_to_trakt alone
MaxEntries == 2    \* entries per small response in a whole migration run
MaxItems == 120    \* records handed to upload_to_trakt alone
MaxRows == 2       \* entries per response in an export run

----------------------------------------------------------------------------
(* Python values *)

PyStr(s) == [t |-> "str", s |-> s, n |-> 0]
PyInt(n) == [t |-> "int", s |-> <<>>, n |-> n]
PyNone == [t |-> "none", s |-> <<>>, n |-> 0]

\* bool(v): '' , 0 and PyNone are falsy
Truthy(v) == CASE v.t = "str" -> v.s # <<>>
               [] v.t = "int" -> v.n # 0
               [] OTHER -> FALSE

EmptyDict == [k \in {} |-> PyNone]

\* d.get(k, default)
Get(d, k, default) == IF k \in DOMAIN d THEN d[k] ELSE default

\* bool(d) for a dict
TruthyDict(d) == DOMAIN d # {}

Digits == {"0", "1", "2", "3", "4", "5", "6", "7", "8", "9"}

DigitVal(c) == CASE c = "0" -> 0 [] c = "1" -> 1 [] c = "2" -> 2 [] c = "3" -> 3
                 [] c = "4" -> 4 [] c = "5" -> 5 [] c = "6" -> 6 [] c = "7" -> 7
                 [] c = "8" -> 8 [] OTHER -> 9

RECURSIVE StripLeft(_)
StripLeft(s) == IF s # <<>> /\ Head(s) = " " THEN StripLeft(Tail(s)) ELSE s

RECURSIVE StripRight(_)
StripRight(s) ==
    IF s # <<>> /\ s[Len(s)] = " " THEN StripRight(SubSeq(s, 1, Len(s) - 1)) ELSE s

RECURSIVE DigitsValue(_)
DigitsValue(s) ==
    IF s = <<>> THEN 0 ELSE 10 * DigitsValue(SubSeq(s, 1, Len(s) - 1)) + DigitVal(s[Len(s)])

\* the text int() parses: surrounding blanks stripped
IntBody(s) == StripRight(StripLeft(s))

Unsigned(s) == IF s # <<>> /\ Head(s) \in {"+", "-"} THEN Tail(s) ELSE s

\* int(str) raises ValueError unless the text is [sign] digit+
IntParses(s) ==
    LET u == Unsigned(IntBody(s))
    IN  u # <<>> /\ \A k \in 1..Len(u) : u[k] \in Digits

\* int(v) raises (ValueError / TypeError)
IntRaises(v) == CASE v.t = "str" -> ~IntParses(v.s)
                  [] v.t = "int" -> FALSE
                  [] OTHER -> TRUE

\* int(v) when it does not raise
IntOf(v) ==
    IF v.t = "int" THEN v.n
    ELSE LET b == IntBody(v.s)
             m == DigitsValue(Unsigned(b))
         IN  IF b # <<>> /\ Head(b) = "-" THEN 0 - m ELSE m

----------------------------------------------------------------------------
(* migrate_simkl_to_trakt.py *)

BATCH_SIZE == 50

Categories == <<"movies", "shows", "anime">>

\* outcomes of urllib.request.urlopen inside make_request
Outcomes == {"ok", "http", "transport"}

\* make_request: an HTTPError is printed and re-raised, any other error
\* (URLError, ...) propagates untouched
make_request_raises(outcome) == outcome # "ok"

\* simkl_ids = item.get(item_type, {}).get('ids', {})
simkl_ids_of(item, item_type) == Get(Get(item, item_type, EmptyDict), "ids", EmptyDict)

\* faulty variant: slug copied only when truthy, like imdb and tmdb
IdKeysTruthySlug(simkl_ids) ==
    {k \in {"imdb", "tmdb", "slug"} : k \in DOMAIN simkl_ids /\ Truthy(simkl_ids[k])}

\* the keys copied into ids, lines 120-125
IdKeys(simkl_ids) ==
    {k \in {"imdb", "tmdb"} : k \in DOMAIN simkl_ids /\ Truthy(simkl_ids[k])}
    \cup {k \in {"slug"} : k \in DOMAIN simkl_ids}

\* int(simkl_ids['tmdb']) raises
CoercionFails(simkl_ids) ==
    "tmdb" \in DOMAIN simkl_ids /\ Truthy(simkl_ids["tmdb"]) /\ IntRaises(simkl_ids["tmdb"])

\* ids as built by lines 116-125 (when int() does not raise)
BuildIds(simkl_ids) ==
    [k \in IdKeys(simkl_ids) |->
        IF k = "tmdb" THEN PyInt(IntOf(simkl_ids[k])) ELSE simkl_ids[k]]

\* trakt_item, lines 131-147
TraktItem(item, ids) ==
    IF "last_watched_at" \in DOMAIN item
    THEN [ids |-> ids, watched_at |-> item["last_watched_at"]]
    ELSE [ids |-> ids]

\* one iteration of the loop of transform_to_trakt, lines 115-147 (when int()
\* does not raise): the records it appends
transform_item(item, item_type) ==
    LET ids == BuildIds(simkl_ids_of(item, item_type))
    IN  IF ~TruthyDict(ids) THEN <<>>
        ELSE IF item_type = "movies" THEN <<TraktItem(item, ids)>>
        ELSE IF item_type \in {"shows", "anime"} THEN <<TraktItem(item, ids)>>
        ELSE <<>>

\* the iterations lo..hi of the loop, in order (split in halves to keep the
\* evaluation shallow)
RECURSIVE transform_range(_, _, _, _)
transform_range(simkl_items, item_type, lo, hi) ==
    IF lo > hi THEN <<>>
    ELSE IF lo = hi THEN transform_item(simkl_items[lo], item_type)
    ELSE LET mid == (lo + hi) \div 2
         IN  transform_range(simkl_items, item_type, lo, mid)
             \o transform_range(simkl_items, item_type, mid + 1, hi)

\* trakt_items as returned, when no iteration raises
transform_to_trakt(simkl_items, item_type) ==
    transform_range(simkl_items, item_type, 1, Len(simkl_items))

\* transform_to_trakt raises: some iteration reaches a failing int()
transform_raises(simkl_items, item_type) ==
    \E k \in 1..Len(simkl_items) : CoercionFails(simkl_ids_of(simkl_items[k], item_type))

\* faulty variant: the slice ends one element early
BatchOffByOne(records, start) ==
    SubSeq(records, start + 1, IF start + BATCH_SIZE - 1 < Len(records)
                               THEN start + BATCH_SIZE - 1 ELSE Len(records))

\* items[i:i + BATCH_SIZE] with a 0-based i
Batch(records, start) ==
    SubSeq(records, start + 1, IF start + BATCH_SIZE < Len(records)
                               THEN start + BATCH_SIZE ELSE Len(records))

\* faulty variant: anime is not recognised as a show kind
PayloadShowsOnly(data_type, batch) ==
    [movies |-> IF data_type = "movies" THEN batch ELSE <<>>,
     shows |-> IF data_type = "shows" THEN batch ELSE <<>>]

\* payload, lines 170-173
Payload(data_type, batch) ==
    [movies |-> IF data_type = "movies" THEN batch ELSE <<>>,
     shows |-> IF data_type \in {"shows", "anime"} THEN batch ELSE <<>>]

----------------------------------------------------------------------------
(* The responses of the source service: the inputs of a run *)

SeqUpTo(S, n) == UNION {[1..m -> S] : m \in 0..n}

Range(seq) == {seq[k] : k \in 1..Len(seq)}

tt1 == PyStr(<<"t", "t", "1">>)
Stamp == PyStr(<<"2", "0", "2", "4">>)

\* an entry holding one descriptor under `key`
Entry(key, desc) == [k \in {key} |-> desc]

WithWatched(item) ==
    [k \in DOMAIN item \cup {"last_watched_at"} |->
        IF k = "last_watched_at" THEN Stamp ELSE item[k]]

\* the key the export script reads the descriptor of a category from
Singular(item_type) == CASE item_type = "movies" -> "movie"
                         [] item_type = "shows" -> "show"
                         [] OTHER -> "anime"

IdMaps ==
    { EmptyDict,
      [imdb |-> tt1],
      [imdb |-> PyStr(<<>>)],
      [imdb |-> PyNone, tmdb |-> PyNone],
      [tmdb |-> PyStr(<<"4", "2">>)],
      [tmdb |-> PyStr(<<" ", "-", "7">>)],
      [tmdb |-> PyInt(42)],
      [tmdb |-> PyInt(0)],
      [tmdb |-> PyStr(<<"a", "b", "c">>)],
      [slug |-> PyStr(<<>>)],
      [imdb |-> tt1, tmdb |-> PyStr(<<"4", "2">>), slug |-> PyStr(<<"s">>)],
      [imdb |-> tt1, tmdb |-> PyStr(<<"4", "x">>)] }

\* entries handed to transform_to_trakt alone
TransformEntries(item_type) ==
    {Entry(item_type, [ids |-> m]) : m \in IdMaps}
    \cup { EmptyDict,
           Entry(item_type, EmptyDict),
           Entry(Singular(item_type), [ids |-> [imdb |-> tt1]]),
           WithWatched(Entry(item_type, [ids |-> [imdb |-> tt1]])),
           WithWatched(Entry(item_type, [ids |-> EmptyDict])) }

\* entries of the small responses of a whole run
MainEntries(item_type) ==
    { WithWatched(Entry(item_type, [ids |-> [imdb |-> tt1]])),
      WithWatched(Entry(Singular(item_type), [ids |-> [imdb |-> tt1]])),
      Entry(item_type, [ids |-> [imdb |-> PyStr(<<>>)]]),
      Entry(item_type, [ids |-> [tmdb |-> PyStr(<<"a", "b", "c">>)]]) }

\* n entries that all transform, told apart by their tmdb identifier
Bulk(item_type, n) == [k \in 1..n |-> Entry(item_type, [ids |-> [tmdb |-> PyInt(k)]])]

BulkLens == {BATCH_SIZE, 2 * BATCH_SIZE + 20}

Responses(item_type) ==
    {[k \in {item_type} |-> es] : es \in SeqUpTo(MainEntries(item_type), MaxEntries)}
    \cup {[k \in {item_type} |-> Bulk(item_type, n)] : n \in BulkLens}
    \cup {EmptyDict}

\* n records as transform_to_trakt returns them, told apart by their tmdb identifier
Records(n) == [k \in 1..n |-> [ids |-> [tmdb |-> PyInt(k)]]]

----------------------------------------------------------------------------
(* main() of migrate_simkl_to_trakt.py *)

\* simkl_history_export.csv before it is written
NoFile == [header |-> <<>>, lines |-> <<>>]

\* the export's main() has not started
ExportIdle ==
    /\ epc = "auth_simkl"
    /\ ecat = 1
    /\ edata = EmptyDict
    /\ inputs = <<>>
    /\ all_rows = <<>>
    /\ csvfile = NoFile

\* nothing has been called yet
NoHistory ==
    /\ i = 0
    /\ sent = <<>>
    /\ failed = {}
    /\ fetched = <<>>
    /\ transformed = <<>>
    /\ uploaded = <<>>
    /\ fetchFailed = {}
    /\ nsub = [c \in 1..3 |-> 0]
    /\ nsleep = 0

Init ==
    /\ pc = "auth_simkl"
    /\ cat = 1
    /\ data = EmptyDict
    /\ items = <<>>
    /\ NoHistory
    /\ ExportIdle

\* where main() continues once the try block of category c is left
AfterCategory(c) == IF c < 3 THEN "fetch" ELSE "done"

LeaveCategory ==
    /\ pc' = AfterCategory(cat)
    /\ cat' = IF cat < 3 THEN cat + 1 ELSE cat

\* authenticate_simkl(): an exception reaches the outer handler of main()
AuthenticateSimkl ==
    /\ pc = "auth_simkl"
    /\ \E outcome \in Outcomes :
          pc' = IF make_request_raises(outcome) THEN "aborted" ELSE "auth_trakt"
    /\ UNCHANGED <<cat, data, items, i, sent, failed, fetched, transformed,
                   uploaded, fetchFailed, nsub, nsleep>>
    /\ UNCHANGED expVars

\* authenticate_trakt()
AuthenticateTrakt ==
    /\ pc = "auth_trakt"
    /\ \E outcome \in Outcomes :
          pc' = IF make_request_raises(outcome) THEN "aborted" ELSE "fetch"
    /\ UNCHANGED <<cat, data, items, i, sent, failed, fetched, transformed,
                   uploaded, fetchFailed, nsub, nsleep>>
    /\ UNCHANGED expVars

\* fetch_simkl_data(simkl_token, category) returns a response
FetchOk ==
    /\ pc = "fetch"
    /\ fetched' = Append(fetched, Categories[cat])
    /\ \E resp \in Responses(Categories[cat]) : data' = resp
    /\ pc' = "transform"
    /\ UNCHANGED <<cat, items, i, sent, failed, transformed, uploaded,
                   fetchFailed, nsub, nsleep>>
    /\ UNCHANGED expVars

\* faulty variant: no per-category handler, the error reaches the outer handler
FetchFailAborts ==
    /\ pc = "fetch"
    /\ fetched' = Append(fetched, Categories[cat])
    /\ \E outcome \in Outcomes : make_request_raises(outcome)
    /\ fetchFailed' = fetchFailed \cup {Categories[cat]}
    /\ pc' = "aborted"
    /\ UNCHANGED <<cat, data, items, i, sent, failed, transformed, uploaded, nsub, nsleep>>
    /\ UNCHANGED expVars

\* fetch_simkl_data raises; the category's except clause reports it
FetchFail ==
    /\ pc = "fetch"
    /\ fetched' = Append(fetched, Categories[cat])
    /\ \E outcome \in Outcomes : make_request_raises(outcome)
    /\ fetchFailed' = fetchFailed \cup {Categories[cat]}
    /\ LeaveCategory
    /\ UNCHANGED <<data, items, i, sent, failed, transformed, uploaded, nsub, nsleep>>
    /\ UNCHANGED expVars

\* transform_to_trakt(response.get(category, []), category); an exception
\* raised inside it reaches the category's except clause
Transform ==
    /\ pc = "transform"
    /\ transformed' = Append(transformed, Categories[cat])
    /\ LET simkl_items == Get(data, Categories[cat], <<>>)
       IN  IF transform_raises(simkl_items, Categories[cat])
           THEN /\ LeaveCategory
                /\ UNCHANGED items
           ELSE /\ items' = transform_to_trakt(simkl_items, Categories[cat])
                /\ pc' = "upload"
                /\ UNCHANGED cat
    /\ UNCHANGED <<data, i, sent, failed, fetched, uploaded, fetchFailed, nsub, nsleep>>
    /\ UNCHANGED expVars

\* faulty variant: the loop body runs once before the emptiness test
UploadEnterNoGuard ==
    /\ pc = "upload"
    /\ uploaded' = Append(uploaded, Categories[cat])
    /\ sent' = <<>>
    /\ i' = 0
    /\ pc' = "submit"
    /\ UNCHANGED <<cat, data, items, failed, fetched, transformed, fetchFailed, nsub, nsleep>>
    /\ UNCHANGED expVars

\* upload_to_trakt, lines 152-168: return at once when there is nothing to upload
UploadEnter ==
    /\ pc = "upload"
    /\ uploaded' = Append(uploaded, Categories[cat])
    /\ sent' = <<>>
    /\ IF items = <<>>
       THEN /\ LeaveCategory
            /\ UNCHANGED i
       ELSE /\ i' = 0
            /\ pc' = "submit"
            /\ UNCHANGED cat
    /\ UNCHANGED <<data, items, failed, fetched, transformed, fetchFailed, nsub, nsleep>>
    /\ UNCHANGED expVars

\* faulty variant: no try/except around the POST, a failure leaves the upload
SubmitPropagates ==
    /\ pc = "submit"
    /\ sent' = Append(sent, Payload(Categories[cat], Batch(items, i)))
    /\ nsub' = [nsub EXCEPT ![cat] = @ + 1]
    /\ \E outcome \in Outcomes :
          IF make_request_raises(outcome)
          THEN /\ failed' = failed \cup {<<Categories[cat], (i \div BATCH_SIZE) + 1>>}
               /\ LeaveCategory
          ELSE /\ failed' = failed
               /\ pc' = "sleep"
               /\ UNCHANGED cat
    /\ UNCHANGED <<data, items, i, fetched, transformed, uploaded, fetchFailed, nsleep>>
    /\ UNCHANGED expVars

\* faulty variant: the cool-down sits inside the try block, a failure skips it
SubmitSleepInTry ==
    /\ pc = "submit"
    /\ sent' = Append(sent, Payload(Categories[cat], Batch(items, i)))
    /\ nsub' = [nsub EXCEPT ![cat] = @ + 1]
    /\ \E outcome \in Outcomes :
          IF make_request_raises(outcome)
          THEN /\ failed' = failed \cup {<<Categories[cat], (i \div BATCH_SIZE) + 1>>}
               /\ i' = i + BATCH_SIZE
               /\ IF i + BATCH_SIZE < Len(items)
                  THEN pc' = "submit" /\ UNCHANGED cat
                  ELSE LeaveCategory
          ELSE /\ failed' = failed
               /\ pc' = "sleep"
               /\ UNCHANGED <<cat, i>>
    /\ UNCHANGED <<data, items, fetched, transformed, uploaded, fetchFailed, nsleep>>
    /\ UNCHANGED expVars

\* upload_to_trakt, lines 169-180: POST one batch; an exception is caught and reported
Submit ==
    /\ pc = "submit"
    /\ sent' = Append(sent, Payload(Categories[cat], Batch(items, i)))
    /\ nsub' = [nsub EXCEPT ![cat] = @ + 1]
    /\ \E outcome \in Outcomes :
          failed' = IF make_request_raises(outcome)
                    THEN failed \cup {<<Categories[cat], (i \div BATCH_SIZE) + 1>>}
                    ELSE failed
    /\ pc' = "sleep"
    /\ UNCHANGED <<cat, data, items, i, fetched, transformed, uploaded,
                   fetchFailed, nsleep>>
    /\ UNCHANGED expVars

\* upload_to_trakt, line 182 and the loop header: cool down, then the next batch
Sleep ==
    /\ pc = "sleep"
    /\ nsleep' = nsleep + 1
    /\ i' = i + BATCH_SIZE
    /\ IF i + BATCH_SIZE < Len(items)
       THEN /\ pc' = "submit"
            /\ UNCHANGED cat
       ELSE LeaveCategory
    /\ UNCHANGED <<data, items, sent, failed, fetched, transformed, uploaded,
                   fetchFailed, nsub>>
    /\ UNCHANGED expVars

Next ==
    \/ AuthenticateSimkl
    \/ AuthenticateTrakt
    \/ FetchOk
    \/ FetchFail
    \/ Transform
    \/ UploadEnter
    \/ Submit
    \/ Sleep

Spec == Init /\ [][Next]_vars

\* transform_to_trakt alone, on every list of at most MaxLen entries
InitTransform ==
    /\ pc = "transform"
    /\ cat \in 1..3
    /\ \E es \in SeqUpTo(TransformEntries(Categories[cat]), MaxLen) :
          data = [k \in {Categories[cat]} |-> es]
    /\ items = <<>>
    /\ NoHistory
    /\ ExportIdle

NextTransform == Transform

SpecTransform == InitTransform /\ [][NextTransform]_vars

\* upload_to_trakt alone, on every kind and every record count up to MaxItems
InitUpload ==
    /\ pc = "upload"
    /\ cat \in 1..3
    /\ data = EmptyDict
    /\ \E n \in 0..MaxItems : items = Records(n)
    /\ NoHistory
    /\ ExportIdle

NextUpload ==
    \/ UploadEnter
    \/ Submit
    \/ Sleep

SpecUpload == InitUpload /\ [][NextUpload]_vars

----------------------------------------------------------------------------
(* export_simkl_to_csv.py *)

\* movie = item.get('movie', {})
movie_of(item) == Get(item, "movie", EmptyDict)

\* show = item.get('show') or item.get('anime'); a missing descriptor (None)
\* and an empty one are both falsy and are both rendered as the empty dict
show_of(item) ==
    IF "show" \in DOMAIN item /\ TruthyDict(item["show"]) THEN item["show"]
    ELSE Get(item, "anime", EmptyDict)

\* the row of one movie entry, lines 93-105
movie_row(item) ==
    LET movie == movie_of(item)
        ids == Get(movie, "ids", EmptyDict)
    IN  [Type |-> PyStr(<<"m", "o", "v", "i", "e">>),
         Title |-> Get(movie, "title", PyNone),
         Year |-> Get(movie, "year", PyNone),
         Season |-> PyStr(<<>>),
         Episode |-> PyStr(<<>>),
         WatchedAt |-> Get(item, "last_watched_at", PyNone),
         IMDB |-> Get(ids, "imdb", PyNone),
         TMDB |-> Get(ids, "tmdb", PyNone),
         SimklID |-> Get(ids, "simkl", PyNone)]

RECURSIVE movie_rows(_)
movie_rows(list) ==
    IF list = <<>> THEN <<>> ELSE <<movie_row(Head(list))>> \o movie_rows(Tail(list))

process_movies(movies_data) == movie_rows(Get(movies_data, "movies", <<>>))

\* the row of one episode, lines 143-154
episode_row(show, ep) ==
    LET ids == Get(show, "ids", EmptyDict)
    IN  [Type |-> PyStr(<<"e", "p", "i", "s", "o", "d", "e">>),
         Title |-> Get(show, "title", PyNone),
         Year |-> Get(show, "year", PyNone),
         Season |-> Get(ep, "season", PyNone),
         Episode |-> Get(ep, "episode", PyNone),
         WatchedAt |-> Get(ep, "watched_at", PyNone),
         IMDB |-> Get(ids, "imdb", PyNone),
         TMDB |-> Get(ids, "tmdb", PyNone),
         TVDB |-> Get(ids, "tvdb", PyNone),
         SimklID |-> Get(ids, "simkl", PyNone)]

\* one iteration of the loop over items_list, lines 123-154
show_rows(item) ==
    LET show == show_of(item)
        episodes == Get(item, "episodes", <<>>)
    IN  IF ~TruthyDict(show) THEN <<>>
        ELSE IF episodes = <<>> THEN <<>>
        ELSE [k \in 1..Len(episodes) |-> episode_row(show, episodes[k])]

RECURSIVE shows_rows(_)
shows_rows(list) ==
    IF list = <<>> THEN <<>> ELSE show_rows(Head(list)) \o shows_rows(Tail(list))

\* the key process_shows would read with type_label + 's' alone
PluralKey(type_label) == IF type_label = "show" THEN "shows" ELSE "animes"

\* faulty variant: the list is read from type_label + 's' for anime too
process_shows_plural_key(shows_data, type_label) ==
    shows_rows(Get(shows_data, PluralKey(type_label), <<>>))

process_shows(shows_data, type_label) ==
    shows_rows(IF type_label = "anime"
               THEN Get(shows_data, "anime", <<>>)
               ELSE Get(shows_data, PluralKey(type_label), <<>>))

fieldnames ==
    <<"Type", "Title", "Year", "Season", "Episode", "WatchedAt", "IMDB", "TMDB",
      "TVDB", "SimklID">>

DigitChar(d) == CASE d = 0 -> "0" [] d = 1 -> "1" [] d = 2 -> "2" [] d = 3 -> "3"
                  [] d = 4 -> "4" [] d = 5 -> "5" [] d = 6 -> "6" [] d = 7 -> "7"
                  [] d = 8 -> "8" [] OTHER -> "9"

RECURSIVE NatToStr(_)
NatToStr(n) == IF n < 10 THEN <<DigitChar(n)>> ELSE NatToStr(n \div 10) \o <<DigitChar(n % 10)>>

\* the text csv.writer puts in a cell: None as '', a number through str()
Cell(v) == CASE v.t = "str" -> v.s
             [] v.t = "int" -> IF v.n < 0 THEN <<"-">> \o NatToStr(0 - v.n) ELSE NatToStr(v.n)
             [] OTHER -> <<>>

\* csv.DictWriter.writerow: one cell per field name, '' for a key the row lacks
CsvLine(row) ==
    [col \in Range(fieldnames) |-> Cell(Get(row, col, PyStr(<<>>)))]

\* what a category's fetch gave the export
Fetched(resp) == [failed |-> FALSE, resp |-> resp]
FetchError == [failed |-> TRUE, resp |-> EmptyDict]

\* the responses of the source service to the export
Descriptor(title, simkl) ==
    [title |-> PyStr(<<title>>), year |-> PyInt(1999),
     ids |-> [imdb |-> tt1, simkl |-> PyInt(simkl)]]

Ep(season, number) ==
    [season |-> PyInt(season), episode |-> PyInt(number), watched_at |-> Stamp]

ExportEntries(item_type) ==
    CASE item_type = "movies" ->
            { WithWatched(Entry("movie", Descriptor("A", 1))),
              EmptyDict }
      [] item_type = "shows" ->
            { [show |-> Descriptor("B", 2), episodes |-> <<Ep(1, 1), Ep(1, 2)>>],
              [show |-> Descriptor("C", 3)],
              [show |-> Descriptor("D", 4), episodes |-> <<>>],
              [episodes |-> <<Ep(3, 1)>>] }
      [] OTHER ->
            { [anime |-> Descriptor("E", 5), episodes |-> <<Ep(1, 1)>>],
              [show |-> Descriptor("F", 6), episodes |-> <<Ep(2, 1), Ep(2, 2)>>],
              [show |-> EmptyDict, episodes |-> <<Ep(4, 1)>>] }

ExportResponses(item_type) ==
    {[k \in {item_type} |-> es] : es \in SeqUpTo(ExportEntries(item_type), MaxRows)}
    \cup {EmptyDict}

MigrationIdle ==
    /\ pc = "auth_simkl"
    /\ cat = 1
    /\ data = EmptyDict
    /\ items = <<>>
    /\ NoHistory

InitExport ==
    /\ ExportIdle
    /\ MigrationIdle

\* where the export's main() continues once the try block of category c is left
ExportLeaveCategory ==
    /\ epc' = IF ecat < 3 THEN "fetch" ELSE "write"
    /\ ecat' = IF ecat < 3 THEN ecat + 1 ELSE ecat

\* authenticate_simkl(): an exception reaches the outer handler of main()
ExportAuthenticate ==
    /\ epc = "auth_simkl"
    /\ \E outcome \in Outcomes :
          epc' = IF make_request_raises(outcome) THEN "aborted" ELSE "fetch"
    /\ UNCHANGED <<ecat, edata, inputs, all_rows, csvfile>>
    /\ UNCHANGED migVars

\* data = fetch_simkl_data(token, category)
ExportFetchOk ==
    /\ epc = "fetch"
    /\ \E resp \in ExportResponses(Categories[ecat]) :
          /\ edata' = resp
          /\ inputs' = Append(inputs, Fetched(resp))
    /\ epc' = "process"
    /\ UNCHANGED <<ecat, all_rows, csvfile>>
    /\ UNCHANGED migVars

\* fetch_simkl_data raises; the category's except clause reports it
ExportFetchFail ==
    /\ epc = "fetch"
    /\ \E outcome \in Outcomes : make_request_raises(outcome)
    /\ inputs' = Append(inputs, FetchError)
    /\ ExportLeaveCategory
    /\ UNCHANGED <<edata, all_rows, csvfile>>
    /\ UNCHANGED migVars

\* rows = process_movies(data) / process_shows(data, label); all_rows.extend(rows)
ExportProcess ==
    /\ epc = "process"
    /\ all_rows' = all_rows \o
          (CASE ecat = 1 -> process_movies(edata)
             [] ecat = 2 -> process_shows(edata, "show")
             [] OTHER -> process_shows(edata, "anime"))
    /\ ExportLeaveCategory
    /\ UNCHANGED <<edata, inputs, csvfile>>
    /\ UNCHANGED migVars

\* lines 193-199: the header, then one line per row; an I/O error reaches the
\* outer handler
ExportWrite ==
    /\ epc = "write"
    /\ \/ /\ csvfile' = [header |-> fieldnames,
                         lines |-> [k \in 1..Len(all_rows) |-> CsvLine(all_rows[k])]]
          /\ epc' = "done"
       \/ /\ csvfile' = csvfile
          /\ epc' = "aborted"
    /\ UNCHANGED <<ecat, edata, inputs, all_rows>>
    /\ UNCHANGED migVars

NextExport ==
    \/ ExportAuthenticate
    \/ ExportFetchOk
    \/ ExportFetchFail
    \/ ExportProcess
    \/ ExportWrite

SpecExport == InitExport /\ [][NextExport]_vars

----------------------------------------------------------------------------
(* Properties of the migration *)

Last(seq) == seq[Len(seq)]

CeilDiv(a, b) == (a + b - 1) \div b

Min(a, b) == IF a < b THEN a ELSE b

\* the entries handed to the transform call of the current category
CurrentEntries == Get(data, Categories[cat], <<>>)

\* truthy imdb, truthy tmdb, or a slug key whatever its value
HasUsableId(m) ==
    \/ "imdb" \in DOMAIN m /\ Truthy(m["imdb"])
    \/ "tmdb" \in DOMAIN m /\ Truthy(m["tmdb"])
    \/ "slug" \in DOMAIN m

\* positions of the entries of es that carry a usable identifier
UsableAt(es, item_type) ==
    {k \in 1..Len(es) : HasUsableId(simkl_ids_of(es[k], item_type))}

\* positions of the entries of es whose tmdb cannot be coerced
FailingAt(es, item_type) ==
    {k \in 1..Len(es) : CoercionFails(simkl_ids_of(es[k], item_type))}

\* the records one payload carries
Carried(payload) == payload.movies \o payload.shows

RECURSIVE Flatten(_)
Flatten(payloads) ==
    IF payloads = <<>> THEN <<>> ELSE Carried(Head(payloads)) \o Flatten(Tail(payloads))

\* the last upload_to_trakt call has returned and its arguments are still in place
UploadReturned == uploaded # <<>> /\ pc \in {"fetch", "transform", "done"}

TotalSubmissions == nsub[1] + nsub[2] + nsub[3]

CatIndex(c) == CHOOSE k \in 1..3 : Categories[k] = c

\* C1: when no tmdb coercion fails, transform_to_trakt returns, and it emits a
\* record for exactly the entries whose identifier mapping has a truthy imdb, a
\* truthy tmdb or a slug key, in order; the ids of each record are not empty
\* and hold exactly the keys that qualified.
C1_EmitsIffUsableId ==
    LET item_type == Last(transformed)
        es == Get(data, item_type, <<>>)
        kept == UsableAt(es, item_type)
        rank(k) == Cardinality({j \in kept : j <= k})
    IN  (transformed # <<>> /\ FailingAt(es, item_type) = {}) =>
            /\ pc = "upload"
            /\ Len(items) = Cardinality(kept)
            /\ \A r \in 1..Len(items) : DOMAIN items[r].ids # {}
            /\ \A k \in kept :
                  LET m == simkl_ids_of(es[k], item_type)
                      ids == items[rank(k)].ids
                  IN  /\ "imdb" \in DOMAIN ids <=> ("imdb" \in DOMAIN m /\ Truthy(m["imdb"]))
                      /\ "tmdb" \in DOMAIN ids <=> ("tmdb" \in DOMAIN m /\ Truthy(m["tmdb"]))
                      /\ "slug" \in DOMAIN ids <=> "slug" \in DOMAIN m

\* a record was emitted for an entry whose only identifier is an empty slug,
\* and another entry of the same list was dropped
C1_Witness ==
    /\ pc = "upload"
    /\ transformed # <<>>
    /\ Len(items) = 1
    /\ Len(CurrentEntries) = 2
    /\ DOMAIN items[1].ids = {"slug"}
    /\ ~Truthy(items[1].ids["slug"])

\* C2: a failing tmdb coercion skips that record only: the transform call of a
\* category always returns, with one record per entry that has a usable
\* identifier and whose tmdb coerces.
C2_CoercionFailureSkipsOneRecord ==
    [][pc = "transform" =>
          /\ pc' = "upload"
          /\ Len(items') = Len(CurrentEntries)
                           - (Len(CurrentEntries)
                              - Cardinality(UsableAt(CurrentEntries, Categories[cat])))
                           - Cardinality(FailingAt(CurrentEntries, Categories[cat]))]_vars

\* C3: upload_to_trakt of N >= 1 records POSTs ceil(N / 50) payloads of at most
\* 50 records each, and the payloads in order carry exactly the N records in order.
C3_BatchesCoverRecordsInOrder ==
    (UploadReturned /\ Len(items) >= 1) =>
        /\ Len(sent) = CeilDiv(Len(items), BATCH_SIZE)
        /\ \A k \in 1..Len(sent) : Len(Carried(sent[k])) <= BATCH_SIZE
        /\ Flatten(sent) = items

\* 120 records went out as 50, 50, 20
C3_Witness ==
    /\ UploadReturned
    /\ Len(items) = 2 * BATCH_SIZE + 20
    /\ Len(sent) = 3
    /\ Len(Carried(sent[1])) = BATCH_SIZE
    /\ Len(Carried(sent[2])) = BATCH_SIZE
    /\ Len(Carried(sent[3])) = 20

\* C4: a failed POST does not stop the upload: the call it belongs to still
\* POSTs every batch, the run is never aborted by it, and a finished run has
\* gone through all three categories.
C4_BatchFailuresIsolated ==
    /\ \A f \in failed :
          /\ f[1] \in Range(uploaded)
          /\ (UploadReturned /\ f[1] = Last(uploaded)) =>
                /\ Len(sent) = CeilDiv(Len(items), BATCH_SIZE)
                /\ f[2] <= Len(sent)
          /\ (f[1] # Categories[cat] \/ pc \in {"fetch", "done"}) => nsub[CatIndex(f[1])] >= f[2]
    /\ failed # {} => pc # "aborted"
    /\ (failed # {} /\ pc = "done") => fetched = Categories

\* the first of three movie batches failed, all three were POSTed, and anime
\* was uploaded afterwards
C4_Witness ==
    /\ pc = "done"
    /\ <<"movies", 1>> \in failed
    /\ nsub[1] = 3
    /\ nsub[3] >= 1

\* C5: every POST, failed or not, is followed at once by one cool-down: the
\* POSTs outnumber the cool-downs by one exactly while a cool-down is due.
C5_CooldownAfterEverySubmission ==
    /\ TotalSubmissions - nsleep = (IF pc = "sleep" THEN 1 ELSE 0)
    /\ pc = "submit" => nsleep = TotalSubmissions

\* a run with failed and successful POSTs in two categories
C5_Witness ==
    /\ pc = "done"
    /\ failed # {}
    /\ Cardinality(failed) < TotalSubmissions
    /\ nsub[1] >= 2
    /\ nsub[3] >= 1
    /\ nsleep = TotalSubmissions

\* C6: the categories are taken once each in the order movies, shows, anime, as
\* fetch, then transform, then upload; a failed fetch leaves its category without
\* transform, upload or POST, and never keeps the later categories from running.
C6_CategoriesIndependent ==
    /\ Len(fetched) <= 3
    /\ \A k \in 1..Len(fetched) : fetched[k] = Categories[k]
    /\ \A k, l \in 1..Len(transformed) : transformed[k] = transformed[l] => k = l
    /\ \A k, l \in 1..Len(uploaded) : uploaded[k] = uploaded[l] => k = l
    /\ Range(transformed) \subseteq Range(fetched) \ fetchFailed
    /\ Range(uploaded) \subseteq Range(transformed)
    /\ \A c \in 1..3 : nsub[c] > 0 => Categories[c] \in Range(uploaded)
    /\ \A c \in fetchFailed : nsub[CatIndex(c)] = 0
    /\ pc = "aborted" => fetched = <<>>
    /\ pc = "done" =>
          /\ fetched = Categories
          /\ Range(transformed) = Range(fetched) \ fetchFailed

\* the movies fetch failed, shows and anime were still uploaded
C6_Witness ==
    /\ pc = "done"
    /\ fetchFailed = {"movies"}
    /\ nsub[1] = 0
    /\ uploaded = <<"shows", "anime">>
    /\ nsub[2] >= 1
    /\ nsub[3] >= 1

\* C7: every payload has exactly the keys movies and shows; the batch is under
\* movies for kind movies and under shows for kinds shows and anime, the other
\* key holds the empty sequence.
C7_PayloadShape ==
    \A k \in 1..Len(sent) :
        LET kind == Last(uploaded)
            batch == SubSeq(items, (k - 1) * BATCH_SIZE + 1, Min(k * BATCH_SIZE, Len(items)))
        IN  /\ DOMAIN sent[k] = {"movies", "shows"}
            /\ batch # <<>>
            /\ IF kind = "movies"
               THEN sent[k].movies = batch /\ sent[k].shows = <<>>
               ELSE sent[k].shows = batch /\ sent[k].movies = <<>>

\* an anime batch went out under shows
C7_Witness ==
    /\ uploaded = <<"anime">>
    /\ Len(sent) = 2
    /\ sent[2].shows # <<>>
    /\ sent[2].movies = <<>>

\* C9: upload_to_trakt of no records returns without a POST and without a
\* cool-down.
C9_EmptyUploadIsNoop ==
    (uploaded # <<>> /\ items = <<>>) =>
        /\ pc \in {"fetch", "done"}
        /\ sent = <<>>
        /\ nsleep = 0
        /\ TotalSubmissions = 0

\* the anime upload was called with no records and has returned
C9_Witness ==
    /\ uploaded = <<"anime">>
    /\ items = <<>>
    /\ pc = "done"

\* C10: the transformer reads the descriptor of an entry where the export reads
\* it ('movie', 'show', 'anime'): an entry whose descriptor there has a truthy
\* imdb yields a record carrying that imdb.
C10_SameDescriptorAsExport ==
    pc = "upload" =>
        \A k \in 1..Len(CurrentEntries) :
            LET m == Get(Get(CurrentEntries[k], Singular(Categories[cat]), EmptyDict),
                         "ids", EmptyDict)
            IN  ("imdb" \in DOMAIN m /\ Truthy(m["imdb"])) =>
                    \E r \in 1..Len(items) :
                        /\ "imdb" \in DOMAIN items[r].ids
                        /\ items[r].ids["imdb"] = m["imdb"]

----------------------------------------------------------------------------
(* Properties of the export *)

\* the entries the export got for category k (none when the fetch failed)
EntryList(k) ==
    IF inputs[k].failed THEN <<>> ELSE Get(inputs[k].resp, Categories[k], <<>>)

\* the entry has a non-empty descriptor under 'show' or under 'anime'
HasDescriptor(item) ==
    \/ "show" \in DOMAIN item /\ DOMAIN item["show"] # {}
    \/ "anime" \in DOMAIN item /\ DOMAIN item["anime"] # {}

\* what tells a line apart: its type, season and episode cells
LineMark(line) == <<line["Type"], line["Season"], line["Episode"]>>

MovieMarks(list) == [k \in 1..Len(list) |-> <<<<"m", "o", "v", "i", "e">>, <<>>, <<>>>>]

EpisodeMarks(item) ==
    LET eps == Get(item, "episodes", <<>>)
    IN  [k \in 1..Len(eps) |->
            <<<<"e", "p", "i", "s", "o", "d", "e">>,
              Cell(eps[k]["season"]), Cell(eps[k]["episode"])>>]

\* the marks of one line per episode of each entry (of each entry that has a
\* descriptor, when needDescriptor), in order
RECURSIVE AllEpisodeMarks(_, _)
AllEpisodeMarks(list, needDescriptor) ==
    IF list = <<>> THEN <<>>
    ELSE (IF needDescriptor /\ ~HasDescriptor(Head(list)) THEN <<>>
          ELSE EpisodeMarks(Head(list)))
         \o AllEpisodeMarks(Tail(list), needDescriptor)

ExpectedMarks(needDescriptor) ==
    MovieMarks(EntryList(1))
    \o AllEpisodeMarks(EntryList(2), needDescriptor)
    \o AllEpisodeMarks(EntryList(3), needDescriptor)

WrittenMarks == [k \in 1..Len(csvfile.lines) |-> LineMark(csvfile.lines[k])]

\* a failed fetch never ends the export: it is aborted only before the first
\* category or when the file cannot be written
FetchFailureContained == epc = "aborted" => (inputs = <<>> \/ Len(inputs) = 3)

\* C8 as stated: one line per movie entry and one line per episode of every
\* show/anime entry, in input order; nothing for a category whose fetch failed.
C8_OneRowPerEpisodeOfEveryEntry ==
    /\ FetchFailureContained
    /\ epc = "done" =>
          /\ csvfile.header = fieldnames
          /\ WrittenMarks = ExpectedMarks(FALSE)

\* C8 amended: one line per movie entry and one line per episode of every
\* show/anime entry that has a non-empty descriptor under 'show' or 'anime', in
\* input order; nothing for a category whose fetch failed.
C8_OneRowPerEpisodeOfDescribedEntries ==
    /\ FetchFailureContained
    /\ epc = "done" =>
          /\ csvfile.header = fieldnames
          /\ WrittenMarks = ExpectedMarks(TRUE)

\* the movies fetch failed; the shows were an entry with two episodes and an
\* entry with no episode list; the anime were an entry with a descriptor and an
\* entry with an episode but no descriptor
C8_Witness ==
    /\ epc = "done"
    /\ inputs[1].failed
    /\ Len(EntryList(2)) = 2
    /\ \E k \in 1..2 : "episodes" \notin DOMAIN EntryList(2)[k]
    /\ \E k \in 1..2 : Len(Get(EntryList(2)[k], "episodes", <<>>)) = 2
    /\ Len(EntryList(3)) = 2
    /\ \E k \in 1..2 :
          /\ ~HasDescriptor(EntryList(3)[k])
          /\ Get(EntryList(3)[k], "episodes", <<>>) # <<>>
    /\ Len(csvfile.lines) >= 3

====
